---- MODULE Spec2Model ----
(***************************************************************************)
(* Model of src/app.py: the start-up pre-processing that builds the base   *)
(* table `df` from the CSV in the archive, and the Dash callbacks that     *)
(* answer queries against it (atualizar_dashboard, baixar_excel,           *)
(* baixar_csv).                                                            *)
(*                                                                         *)
(* Text is a sequence of one-character strings, so that parsing, trimming  *)
(* and searching are computed, not assumed.  A cell value is a record      *)
(* [t, s, n]: t is its Python type, s its text, n its number.              *)
(***************************************************************************)
EXTENDS Integers, Sequences, FiniteSets, TLC

VARIABLES raw, df, pc, call, dados_tabela, download, modal, ctx

vars == <<raw, df, pc, call, dados_tabela, download, modal, ctx>>

\* ------------------------------------------------------------------ bounds
\* rows of the CSV in the ingestion specification
MaxRows == 2
\* rows of the CSV in the query specification
MaxListings == 2
\* criteria that differ from "not supplied" in one request
MaxSupplied == 2

\* --------------------------------------------------------------- constants
MinPrice == 100
MaxPrice == 10000
SecondsPerDay == 86400

\* ------------------------------------------------------------------ values
Str(s) == [t |-> "str", s |-> s, n |-> 0]
Num(n) == [t |-> "num", s |-> <<>>, n |-> n]
Bool(b) == [t |-> "bool", s |-> <<>>, n |-> IF b THEN 1 ELSE 0]
\* a pandas Timestamp, in seconds since the epoch
Ts(n) == [t |-> "ts", s |-> <<>>, n |-> n]
\* np.nan / NaT
NaN == [t |-> "nan", s |-> <<>>, n |-> 0]
\* Python None (JSON null, dict.get of an absent key)
None == [t |-> "none", s |-> <<>>, n |-> 0]
\* a key that a JSON object does not have
Missing == [t |-> "missing", s |-> <<>>, n |-> 0]

\* pd.isna
IsNa(v) == v.t \in {"nan", "none"}

\* Python truthiness of a callback argument
Truthy(v) ==
    CASE v.t = "none" -> FALSE
      [] v.t = "nan" -> TRUE
      [] v.t = "str" -> v.s # <<>>
      [] v.t = "bool" -> v.n = 1
      [] v.t = "num" -> v.n # 0
      [] OTHER -> TRUE

\* the sentinel of lines 90-93 and 129-132
Desconhecido == <<"D","e","s","c","o","n","h","e","c","i","d","o">>

Digits == {"0","1","2","3","4","5","6","7","8","9"}

DigitValue(c) ==
    CASE c = "0" -> 0 [] c = "1" -> 1 [] c = "2" -> 2 [] c = "3" -> 3
      [] c = "4" -> 4 [] c = "5" -> 5 [] c = "6" -> 6 [] c = "7" -> 7
      [] c = "8" -> 8 [] c = "9" -> 9

\* text that Python's float() reads as a whole number: digits, optional sign
IsNumeral(s) ==
    LET body == IF Len(s) > 0 /\ s[1] = "-" THEN Tail(s) ELSE s
    IN  /\ Len(body) > 0
        /\ \A i \in 1..Len(body) : body[i] \in Digits

RECURSIVE DigitsValue(_)
DigitsValue(s) ==
    IF s = <<>> THEN 0
    ELSE 10 * DigitsValue(SubSeq(s, 1, Len(s) - 1)) + DigitValue(s[Len(s)])

ParseNumeral(s) ==
    IF s[1] = "-" THEN 0 - DigitsValue(Tail(s)) ELSE DigitsValue(s)

\* pd.to_numeric(..., errors='coerce') on one cell
ToNumeric(v) ==
    CASE v.t = "num" -> v
      [] v.t = "bool" -> Num(v.n)
      [] v.t = "str" /\ IsNumeral(v.s) -> Num(ParseNumeral(v.s))
      [] OTHER -> NaN

\* pd.to_datetime(..., unit='s', errors='coerce') on one cell
ToDatetime(v) ==
    LET x == ToNumeric(v)
    IN  IF x.t = "num" THEN Ts(x.n) ELSE NaN

\* Series.fillna(value) on one cell
FillNa(v, value) == IF IsNa(v) THEN value ELSE v

\* variant: the fill is applied before the coercion
NumericFillFirst(v) == ToNumeric(FillNa(v, Num(0)))

\* lines 125-127: pd.to_numeric(column, errors='coerce').fillna(0)
NumericOrZero(v) == FillNa(ToNumeric(v), Num(0))

\* variant: the in-place fill acts on a copy and leaves the column as it was
SentinelFillOnCopy(v) == v

\* lines 129-132: column.fillna("Desconhecido")
SentinelFill(v) == FillNa(v, Str(Desconhecido))

\* lines 66 and 133: pd.to_numeric(price_value, errors='coerce'), then fillna(0)
PriceOrZero(v) == FillNa(ToNumeric(v), Num(0))

\* ----------------------------------------------------------- JSON documents
\* A cell of locationdetails / properties after astype(str), as json.loads
\* sees it: text that does not parse, or the value it parses to.
LocKeys == {"municipality", "ddd", "neighbourhood", "uf"}
PropKeys == {"category", "real_estate_type", "rooms", "bathrooms", "garage_spaces"}

NoKeys == [k \in LocKeys |-> Missing]

Malformed == [kind |-> "malformed", obj |-> NoKeys, arr |-> <<>>]
JsonObject(o) == [kind |-> "object", obj |-> o, arr |-> <<>>]
JsonArray(a) == [kind |-> "array", obj |-> NoKeys, arr |-> a]
JsonScalar == [kind |-> "scalar", obj |-> NoKeys, arr |-> <<>>]

\* one element of the properties array: a {name, value} object, or anything else
Item(name, value) == [isdict |-> TRUE, name |-> name, value |-> value]
NotAnObject == [isdict |-> FALSE, name |-> "", value |-> None]

AllNaN(keys) == [k \in keys |-> NaN]

\* parse_location
parse_location(details) ==
    IF details.kind = "object"
    THEN [k \in LocKeys |->
            IF details.obj[k] = Missing THEN NaN ELSE details.obj[k]]
    ELSE AllNaN(LocKeys)

\* the dict comprehension of parse_properties followed by props_dict.get(key, nan):
\* the value of the last item named key
PropsGet(arr, key) ==
    LET hits == {i \in 1..Len(arr) : arr[i].name = key}
    IN  IF hits = {} THEN NaN
        ELSE arr[CHOOSE i \in hits : \A j \in hits : j <= i].value

\* parse_properties
parse_properties(prop_str) ==
    IF /\ prop_str.kind = "array"
       /\ \A i \in 1..Len(prop_str.arr) : prop_str.arr[i].isdict
    THEN [k \in PropKeys |-> PropsGet(prop_str.arr, k)]
    ELSE AllNaN(PropKeys)

\* ------------------------------------------------------------------- text
Whitespace == {" ", "\t", "\n"}

RECURSIVE LStrip(_)
LStrip(s) == IF s # <<>> /\ s[1] \in Whitespace THEN LStrip(Tail(s)) ELSE s

RECURSIVE RStrip(_)
RStrip(s) ==
    IF s # <<>> /\ s[Len(s)] \in Whitespace
    THEN RStrip(SubSeq(s, 1, Len(s) - 1))
    ELSE s

\* str.strip
Strip(s) == RStrip(LStrip(s))

ImgOpen == <<"<","i","m","g"," ","s","r","c","=","\"">>
ImgClose == <<"\""," ","c","l","a","s","s","=","\"","t","h","u","m","b","-","i","m","g","\""," ","/",">">>

\* create_thumbnail_html
create_thumbnail_html(url) ==
    IF IsNa(url) \/ Strip(url.s) = <<>>
    THEN Str(<<>>)
    ELSE Str(ImgOpen \o url.s \o ImgClose)

\* ------------------------------------------------------------ the raw table
\* raw = [cols |-> the CSV's lower-cased column names, rows |-> its rows]
RawCols == {"price_value", "date", "locationdetails", "properties",
            "professionalad", "subject", "title", "thumbnail"}

\* the column of a frame: KeyError when the frame has no such column
HasCol(frame, col) == col \in frame.cols

\* ------------------------------------------------- pre-processing (start-up)
\* lines 60-133 for the row at position i (1-based) of the CSV
NormalizeRow(cols, r, i) ==
    LET loc == IF "locationdetails" \in cols
               THEN parse_location(r.locationdetails)
               ELSE [k \in LocKeys |-> Str(Desconhecido)]
        props == IF "properties" \in cols
                 THEN parse_properties(r.properties)
                 ELSE AllNaN(PropKeys)
    IN  [id |-> i,
         date |-> IF "date" \in cols THEN ToDatetime(r.date) ELSE Missing,
         price_value |-> PriceOrZero(r.price_value),
         municipality |-> SentinelFill(loc["municipality"]),
         ddd |-> SentinelFill(loc["ddd"]),
         neighbourhood |-> SentinelFill(loc["neighbourhood"]),
         uf |-> SentinelFill(loc["uf"]),
         category |-> props["category"],
         real_estate_type |-> props["real_estate_type"],
         rooms |-> NumericOrZero(props["rooms"]),
         bathrooms |-> NumericOrZero(props["bathrooms"]),
         garage_spaces |-> NumericOrZero(props["garage_spaces"]),
         professionalad |-> IF "professionalad" \in cols THEN r.professionalad ELSE Missing,
         subject |-> IF "subject" \in cols THEN r.subject ELSE Missing,
         title |-> IF "title" \in cols THEN r.title ELSE Missing,
         thumbnail |-> IF "thumbnail" \in cols THEN r.thumbnail ELSE Missing,
         thumbnail_link |-> Missing]

DerivedCols == {"id", "municipality", "ddd", "neighbourhood", "uf", "category",
                "real_estate_type", "rooms", "bathrooms", "garage_spaces"}

\* lines 60-133: the Schema Normalizer over the whole frame
NormalizeFrame(table) ==
    [cols |-> table.cols \cup DerivedCols,
     rows |-> [i \in 1..Len(table.rows) |-> NormalizeRow(table.cols, table.rows[i], i)]]

\* variant: the bounds of the mask are exclusive
InPriceRangeExclusive(row) ==
    /\ row.price_value.t = "num"
    /\ row.price_value.n > MinPrice
    /\ row.price_value.n < MaxPrice

\* line 135: the mask of the Range Filter
InPriceRange(row) ==
    /\ row.price_value.t = "num"
    /\ row.price_value.n >= MinPrice
    /\ row.price_value.n <= MaxPrice

\* variant: the surviving rows are numbered again from 1
RangeFilterRenumbered(frame) ==
    LET kept == SelectSeq(frame.rows, InPriceRange)
    IN  [cols |-> frame.cols,
         rows |-> [j \in 1..Len(kept) |-> [kept[j] EXCEPT !.id = j]]]

\* line 135
RangeFilterFrame(frame) ==
    [cols |-> frame.cols, rows |-> SelectSeq(frame.rows, InPriceRange)]

\* lines 142-145
ThumbnailRow(cols, row) ==
    [row EXCEPT !.thumbnail_link =
        IF "thumbnail" \in cols THEN create_thumbnail_html(row.thumbnail) ELSE Str(<<>>)]

ThumbnailFrame(frame) ==
    [cols |-> frame.cols \cup {"thumbnail_link"},
     rows |-> [i \in 1..Len(frame.rows) |-> ThumbnailRow(frame.cols, frame.rows[i])]]

\* lines 60-145: the base table of a CSV
BaseTable(table) == ThumbnailFrame(RangeFilterFrame(NormalizeFrame(table)))

EmptyFrame == [cols |-> {}, rows |-> <<>>]

\* ------------------------------------------------------------- sample data
Manaus == <<"M","a","n","a","u","s">>
Parintins == <<"P","a","r","i","n","t","i","n","s">>
Centro == <<"C","e","n","t","r","o">>
Flores == <<"F","l","o","r","e","s">>
AM == <<"A","M">>
Apartamentos == <<"A","p","a","r","t","a","m","e","n","t","o","s">>
Casas == <<"C","a","s","a","s">>
Padrao == <<"P","a","d","r","a","o">>

LocOf(m, d, b, u) ==
    JsonObject([k \in LocKeys |->
        CASE k = "municipality" -> m [] k = "ddd" -> d
          [] k = "neighbourhood" -> b [] k = "uf" -> u])

GoodLoc == LocOf(Str(Manaus), Num(92), Str(Centro), Str(AM))

GoodProps ==
    JsonArray(<<Item("category", Str(Apartamentos)),
                Item("real_estate_type", Str(Padrao)),
                Item("rooms", Str(<<"2">>)),
                Item("bathrooms", Num(1)),
                Item("garage_spaces", Str(<<"0">>)),
                Item("size", Str(<<"6","0">>))>>)

RawRow(price, date, loc, props, prof, subject, title, thumb) ==
    [price_value |-> price, date |-> date, locationdetails |-> loc,
     properties |-> props, professionalad |-> prof, subject |-> subject,
     title |-> title, thumbnail |-> thumb]

GoodRow ==
    RawRow(Str(<<"5","0","0">>), Num(SecondsPerDay), GoodLoc, GoodProps, Bool(FALSE),
           Str(<<"A","p","t","o">>), Str(<<"K","i","t">>), Str(<<"u",".","j","p","g">>))

\* cells of price_value as read_csv leaves them
PriceCells ==
    {Str(<<"5","0">>), Str(<<"9","9">>), Str(<<"1","0","0">>),
     Str(<<"1","0","0","0","0">>), Str(<<"1","0","0","0","1">>),
     Str(<<"a","b","c">>), Str(<<"-","5","0","0">>), NaN, Num(750)}

\* cells of locationdetails
LocCells ==
    {Malformed, JsonArray(<<>>), JsonScalar, JsonObject(NoKeys),
     LocOf(Str(Parintins), Missing, None, Str(AM))}

\* cells of properties
PropCells ==
    {Malformed, JsonObject(NoKeys), JsonScalar, JsonArray(<<>>),
     JsonArray(<<Item("rooms", Str(<<"3">>)), Item("bathrooms", Str(<<"b","a","d">>))>>),
     JsonArray(<<Item("rooms", Num(1)), NotAnObject>>),
     JsonArray(<<Item("rooms", Num(1)), Item("rooms", Num(4)), Item("", Num(7)),
                 Item("garage_spaces", None)>>),
     JsonArray(<<Item("category", Str(Casas)), Item("rooms", Str(<<"-","1">>)),
                 Item("bathrooms", Num(-2))>>)}

\* cells of thumbnail
ThumbCells == {NaN, Str(<<>>), Str(<<" ">>), Str(<<" ","u"," ">>)}

\* rows of the ingestion specification: GoodRow with one cell replaced
IngestRows ==
    {GoodRow}
    \cup {[GoodRow EXCEPT !.price_value = c] : c \in PriceCells}
    \cup {[GoodRow EXCEPT !.locationdetails = c] : c \in LocCells}
    \cup {[GoodRow EXCEPT !.properties = c] : c \in PropCells}
    \cup {[GoodRow EXCEPT !.thumbnail = c] : c \in ThumbCells}
    \cup {[GoodRow EXCEPT !.price_value = Str(<<"5","0">>), !.properties = Malformed],
          [GoodRow EXCEPT !.date = Str(<<"b","a","d">>), !.properties = Malformed,
                          !.locationdetails = Malformed]}

\* the column sets of the ingestion specification
IngestSchemas ==
    {RawCols, RawCols \ {"locationdetails"}, RawCols \ {"properties"},
     RawCols \ {"date", "thumbnail", "professionalad", "title"},
     RawCols \ {"price_value"}}

RECURSIVE SeqsUpTo(_, _)
SeqsUpTo(S, n) ==
    IF n = 0 THEN {<<>>}
    ELSE LET shorter == SeqsUpTo(S, n - 1)
         IN  shorter \cup {Append(q, x) : q \in shorter, x \in S}

IngestTables ==
    {[cols |-> c, rows |-> r] : c \in IngestSchemas, r \in SeqsUpTo(IngestRows, MaxRows)}

\* ------------------------------------------------------- free-text search
UpperChars == <<"A","B","C","D","E","F","G","H","I","J","K","L","M",
                "N","O","P","Q","R","S","T","U","V","W","X","Y","Z">>
LowerChars == <<"a","b","c","d","e","f","g","h","i","j","k","l","m",
                "n","o","p","q","r","s","t","u","v","w","x","y","z">>

\* re.IGNORECASE folds the case of a letter
Lower(c) ==
    IF \E i \in 1..26 : UpperChars[i] = c
    THEN LowerChars[CHOOSE i \in 1..26 : UpperChars[i] = c]
    ELSE c

DigitChars == <<"0","1","2","3","4","5","6","7","8","9">>

RECURSIVE NumeralOf(_)
NumeralOf(n) ==
    IF n < 10 THEN <<DigitChars[n + 1]>>
    ELSE NumeralOf(n \div 10) \o <<DigitChars[(n % 10) + 1]>>

\* str(cell), as row.astype(str) gives it
StrOf(v) ==
    CASE v.t = "str" -> v.s
      [] v.t = "nan" -> <<"n","a","n">>
      [] v.t = "none" -> <<"N","o","n","e">>
      [] v.t = "bool" -> IF v.n = 1 THEN <<"T","r","u","e">> ELSE <<"F","a","l","s","e">>
      [] v.t = "num" -> IF v.n < 0 THEN <<"-">> \o NumeralOf(0 - v.n) ELSE NumeralOf(v.n)
      [] OTHER -> <<>>

\* Series.str.contains(pat, case=False) takes pat as a regular expression.
\* Patterns here are made of plain characters, "." and "(": re.compile rejects
\* a pattern with an unclosed "(".
PatternCompiles(pat) == \A j \in 1..Len(pat) : pat[j] # "("

\* one pattern character against one text character
CharMatches(p, c) ==
    IF p = "." THEN c # "\n" ELSE Lower(p) = Lower(c)

\* re.search(pat, text, re.IGNORECASE) for a pattern that compiles
RegexSearch(pat, text) ==
    \E i \in 0..(Len(text) - Len(pat)) :
        \A j \in 1..Len(pat) : CharMatches(pat[j], text[i + j])

\* ------------------------------------------------------------------ criteria
\* an argument that is a list of labels: None, or the list (its labels)
NoList == [kind |-> "none", items |-> {}]
ListOf(items) == [kind |-> "list", items |-> items]

\* an argument that is a [min, max] pair: None, [], or the pair
NoRange == [kind |-> "none", lo |-> 0, hi |-> 0]
EmptyRange == [kind |-> "empty", lo |-> 0, hi |-> 0]
RangeOf(lo, hi) == [kind |-> "range", lo |-> lo, hi |-> hi]

\* a date of the date picker, as a day count; pd.to_datetime gives its midnight
DateOf(day) == [t |-> "date", s |-> <<>>, n |-> day]
ToTimestamp(d) == Ts(d.n * SecondsPerDay)

\* Python truthiness of a list argument
ListTruthy(l) == l.kind = "list" /\ l.items # {}
RangeTruthy(r) == r.kind = "range"

\* the arguments of atualizar_dashboard, every one not supplied
NoCriteria ==
    [start_date |-> None, end_date |-> None,
     municipios |-> NoList, bairros |-> NoList, categorias |-> NoList, tipos |-> NoList,
     faixa_preco |-> NoRange, faixa_quartos |-> NoRange,
     faixa_banheiros |-> NoRange, faixa_vagas |-> NoRange,
     profissional |-> None, busca |-> None]

\* ------------------------------------------------------------- Query Engine
\* the state of the function body: the frame in df_filtrado, or the exception
\* that left the function
Ok(frame) == [raised |-> FALSE, error |-> "", frame |-> frame]
Raise(error) == [raised |-> TRUE, error |-> error, frame |-> EmptyFrame]


\* variant: the filters start from the rows the table shows
StartFromTable(base, table) == [cols |-> base.cols, rows |-> table]

\* line 319: df_filtrado = df.copy()
StartFrame(base, table) == base

\* lines 320-322
DateStep(res, c) ==
    IF res.raised \/ ~(Truthy(c.start_date) /\ Truthy(c.end_date)) THEN res
    ELSE IF ~HasCol(res.frame, "date") THEN Raise("KeyError: 'date'")
    ELSE IF ~\E j \in 1..Len(res.frame.rows) : ~IsNa(res.frame.rows[j].date) THEN res
    ELSE LET Keep(row) ==
                 /\ row.date.t = "ts"
                 /\ row.date.n >= ToTimestamp(c.start_date).n
                 /\ row.date.n <= ToTimestamp(c.end_date).n
         IN  Ok([cols |-> res.frame.cols, rows |-> SelectSeq(res.frame.rows, Keep)])

\* Series.isin(labels)
IsIn(v, labels) == v.t = "str" /\ v.s \in labels

\* lines 323-330: one of the four membership filters
IsInStep(res, col, l) ==
    IF res.raised \/ ~ListTruthy(l) THEN res
    ELSE LET Keep(row) == IsIn(row[col], l.items)
         IN  Ok([cols |-> res.frame.cols, rows |-> SelectSeq(res.frame.rows, Keep)])

\* lines 331-350: one of the four range filters
RangeStep(res, col, r) ==
    IF res.raised \/ ~RangeTruthy(r) THEN res
    ELSE LET Keep(row) ==
                 /\ row[col].t = "num"
                 /\ row[col].n >= r.lo
                 /\ row[col].n <= r.hi
         IN  Ok([cols |-> res.frame.cols, rows |-> SelectSeq(res.frame.rows, Keep)])

\* variant: the flag is compared even when the argument is None
ProfStepWithoutNoneCheck(res, c) ==
    IF res.raised THEN res
    ELSE IF ~HasCol(res.frame, "professionalad") THEN Raise("KeyError: 'professionalad'")
    ELSE LET Keep(row) == row.professionalad = c.profissional
         IN  Ok([cols |-> res.frame.cols, rows |-> SelectSeq(res.frame.rows, Keep)])

\* lines 351-352
ProfStep(res, c) ==
    IF res.raised \/ c.profissional.t = "none" THEN res
    ELSE IF ~HasCol(res.frame, "professionalad") THEN Raise("KeyError: 'professionalad'")
    ELSE LET Keep(row) == row.professionalad = c.profissional
         IN  Ok([cols |-> res.frame.cols, rows |-> SelectSeq(res.frame.rows, Keep)])

\* line 354
ColsParaBusca(frame) == {col \in {"subject", "title"} : HasCol(frame, col)}

\* lines 353-357; DataFrame.apply calls the lambda once per row, so a pattern
\* that does not compile raises only when df_filtrado still has a row
BuscaStep(res, c) ==
    IF res.raised \/ ~Truthy(c.busca) THEN res
    ELSE IF ColsParaBusca(res.frame) = {} THEN res
    ELSE IF res.frame.rows = <<>> THEN res
    ELSE IF ~PatternCompiles(c.busca.s) THEN Raise("re.error")
    ELSE LET Keep(row) ==
                 \E col \in ColsParaBusca(res.frame) : RegexSearch(c.busca.s, StrOf(row[col]))
         IN  Ok([cols |-> res.frame.cols, rows |-> SelectSeq(res.frame.rows, Keep)])

\* lines 319-357: df_filtrado at line 359, or the exception raised before it
FilterFrame(start, c) ==
    LET s1 == DateStep(Ok(start), c)
        s2 == IsInStep(s1, "municipality", c.municipios)
        s3 == IsInStep(s2, "neighbourhood", c.bairros)
        s4 == IsInStep(s3, "category", c.categorias)
        s5 == IsInStep(s4, "real_estate_type", c.tipos)
        s6 == RangeStep(s5, "price_value", c.faixa_preco)
        s7 == RangeStep(s6, "rooms", c.faixa_quartos)
        s8 == RangeStep(s7, "bathrooms", c.faixa_banheiros)
        s9 == RangeStep(s8, "garage_spaces", c.faixa_vagas)
        s10 == ProfStep(s9, c)
    IN  BuscaStep(s10, c)

\* --------------------------------------------------------------- Aggregator
RECURSIVE SumSeq(_)
SumSeq(q) == IF q = <<>> THEN 0 ELSE q[1] + SumSeq(Tail(q))

\* num / den rounded to an integer, halves to the even neighbour (np.round)
RoundHalfEven(num, den) ==
    LET q == num \div den
        r == num % den
    IN  IF 2 * r < den THEN q
        ELSE IF 2 * r > den THEN q + 1
        ELSE IF q % 2 = 0 THEN q ELSE q + 1

\* numbers with two decimals are kept in hundredths
\* np.round(Series.mean(), 2)
Mean2(q) == RoundHalfEven(100 * SumSeq(q), Len(q))

Ascending(a, b) == a < b

\* np.round(Series.median(), 2)
Median2(q) ==
    LET sorted == SortSeq(q, Ascending)
        n == Len(q)
    IN  IF n % 2 = 1 THEN 100 * sorted[(n + 1) \div 2]
        ELSE 50 * (sorted[n \div 2] + sorted[(n \div 2) + 1])

Column(rows, col) == [j \in 1..Len(rows) |-> rows[j][col].n]

\* variant: a view of one row is taken for an empty one
HasDataBeyondOne(rows) == Len(rows) > 1

\* the test len(df_filtrado) > 0 of lines 361, 371, 381, 401-403 and 405
HasData(rows) == Len(rows) > 0

SemDados == "Sem dados para exibir"
SemEstatisticas == "Sem dados para exibir estatísticas."

\* lines 361-369
GraficoPrecos(rows) ==
    IF HasData(rows)
    THEN [title |-> "Distribuição dos Preços dos Imóveis", nbins |-> 30,
          x |-> Column(rows, "price_value")]
    ELSE [title |-> SemDados, nbins |-> 0, x |-> <<>>]

\* line 372: groupby('category').size(); rows without a category form no group
CategorySizes(rows) ==
    LET cats == {rows[j].category : j \in {j \in 1..Len(rows) : ~IsNa(rows[j].category)}}
    IN  {[category |-> c, size |-> Cardinality({j \in 1..Len(rows) : rows[j].category = c})]
            : c \in cats}

\* lines 371-379
GraficoCategorias(rows) ==
    IF HasData(rows)
    THEN [title |-> "Contagem de Imóveis por Categoria", bars |-> CategorySizes(rows)]
    ELSE [title |-> SemDados, bars |-> {}]

StatCols == {"price_value", "rooms", "bathrooms", "garage_spaces"}

\* line 382: describe().round(2) of one column (the standard deviation and the
\* quartiles, which need real arithmetic, are left out of the table)
Describe(q) ==
    LET sorted == SortSeq(q, Ascending)
    IN  [Contagem |-> Len(q), Media |-> Mean2(q), Minimo |-> 100 * sorted[1],
         Mediana |-> Median2(q), Maximo |-> 100 * sorted[Len(q)]]

NoDescribe == [Contagem |-> 0, Media |-> 0, Minimo |-> 0, Mediana |-> 0, Maximo |-> 0]

\* lines 381-398
Estatisticas(rows) ==
    IF HasData(rows)
    THEN [html |-> "<div class='table-responsive'>",
          table |-> [col \in StatCols |-> Describe(Column(rows, col))]]
    ELSE [html |-> SemEstatisticas, table |-> [col \in StatCols |-> NoDescribe]]

\* lines 405-424: one of the three box plots
GraficoBox(rows, col, title) ==
    IF HasData(rows)
    THEN [title |-> title,
          points |-> [j \in 1..Len(rows) |-> [x |-> rows[j][col], y |-> rows[j].price_value.n]]]
    ELSE [title |-> SemDados, points |-> <<>>]

\* lines 359-428: the tuple the callback returns
Outputs(rows) ==
    [dados_tabela |-> rows,
     grafico_precos |-> GraficoPrecos(rows),
     grafico_categorias |-> GraficoCategorias(rows),
     analise_estatistica |-> Estatisticas(rows),
     total_imoveis |-> Len(rows),
     preco_medio |-> IF HasData(rows) THEN Mean2(Column(rows, "price_value")) ELSE 0,
     preco_mediano |-> IF HasData(rows) THEN Median2(Column(rows, "price_value")) ELSE 0,
     quartos_medios |-> IF HasData(rows) THEN Mean2(Column(rows, "rooms")) ELSE 0,
     grafico_preco_bairro |-> GraficoBox(rows, "neighbourhood", "Preço por Bairro"),
     grafico_preco_municipio |-> GraficoBox(rows, "municipality", "Preço por Município"),
     grafico_preco_categoria |-> GraficoBox(rows, "category", "Preço por Categoria")]

\* nothing returned: the callback raised
NoOutputs ==
    [dados_tabela |-> <<>>,
     grafico_precos |-> [title |-> "", nbins |-> 0, x |-> <<>>],
     grafico_categorias |-> [title |-> "", bars |-> {}],
     analise_estatistica |-> [html |-> "", table |-> [col \in StatCols |-> NoDescribe]],
     total_imoveis |-> 0, preco_medio |-> 0, preco_mediano |-> 0, quartos_medios |-> 0,
     grafico_preco_bairro |-> [title |-> "", points |-> <<>>],
     grafico_preco_municipio |-> [title |-> "", points |-> <<>>],
     grafico_preco_categoria |-> [title |-> "", points |-> <<>>]]

\* no callback is running
NoCall == [crit |-> NoCriteria, raised |-> FALSE, error |-> "", out |-> NoOutputs]

\* no file is being sent
NoDownload == [filename |-> "", sheet |-> "", rows |-> <<>>]

\* lines 179-190: the popup as laid out, is_open=False and src=""
ModalClosed == [is_open |-> FALSE, src |-> <<>>]

\* callback_context and the arguments of the last exibir_imagem call, none yet
NoTrigger == [triggered |-> "", active_cell |-> [row |-> -1, column_id |-> ""],
              is_open |-> FALSE]

\* ------------------------------------------------------------ start-up steps
\* lines 52-58: the CSV has been read
InitIngest ==
    /\ raw \in IngestTables
    /\ df = EmptyFrame
    /\ pc = "loaded"
    /\ call = NoCall
    /\ dados_tabela = <<>>
    /\ download = NoDownload
    /\ modal = ModalClosed
    /\ ctx = NoTrigger

\* lines 60-133: Schema Normalizer; line 133 is a KeyError without price_value
Normalize ==
    /\ pc = "loaded"
    /\ IF "price_value" \in raw.cols
       THEN /\ df' = NormalizeFrame(raw)
            /\ pc' = "normalized"
       ELSE /\ df' = df
            /\ pc' = "crashed"
    /\ UNCHANGED <<modal, ctx, raw, call, dados_tabela, download>>

\* line 135: Range Filter
RangeFilter ==
    /\ pc = "normalized"
    /\ df' = RangeFilterFrame(df)
    /\ pc' = "filtered"
    /\ UNCHANGED <<modal, ctx, raw, call, dados_tabela, download>>

\* lines 137-145: Thumbnail Formatter; line 208: the table starts with every row
Thumbnails ==
    /\ pc = "filtered"
    /\ df' = ThumbnailFrame(df)
    /\ dados_tabela' = df'.rows
    /\ pc' = "idle"
    /\ UNCHANGED <<modal, ctx, raw, call, download>>

NextIngest == Normalize \/ RangeFilter \/ Thumbnails

SpecIngest == InitIngest /\ [][NextIngest]_vars

\* ------------------------------------------------- sample data of the queries
HalfDay == SecondsPerDay \div 2

\* a house in Manaus, advertised by a professional at noon of day 1
HouseRow ==
    RawRow(Num(2000), Num(SecondsPerDay + HalfDay),
           LocOf(Str(Manaus), Num(92), Str(Flores), Str(AM)),
           JsonArray(<<Item("category", Str(Casas)), Item("real_estate_type", Str(Padrao)),
                       Item("rooms", Num(3)), Item("bathrooms", Num(2)),
                       Item("garage_spaces", Num(1))>>),
           Bool(TRUE), Str(<<"C","a","s","a"," ","A","B","C">>), NaN, NaN)

\* a listing whose date, JSON cells, flag and subject are all unusable
BareRow ==
    RawRow(Str(<<"1","5","0","0">>), Str(<<"b","a","d">>),
           LocOf(Str(Parintins), Missing, None, Str(AM)), Malformed,
           NaN, NaN, Str(<<"a","p","e">>), Str(<<" ">>))

QueryRows == {GoodRow, HouseRow, BareRow}

QuerySchemas ==
    {RawCols, RawCols \ {"date", "professionalad"}, RawCols \ {"subject", "title"}}

QueryTables ==
    {[cols |-> c, rows |-> r] : c \in QuerySchemas, r \in SeqsUpTo(QueryRows, MaxListings)}

\* one argument (the two dates count as one) set to a value
Patch(f, v, v2, l, r) == [f |-> f, v |-> v, v2 |-> v2, l |-> l, r |-> r]
DatePatch(a, b) == Patch("dates", a, b, NoList, NoRange)
ListPatch(f, items) == Patch(f, None, None, ListOf(items), NoRange)
RangePatch(f, r) == Patch(f, None, None, NoList, r)
ValuePatch(f, v) == Patch(f, v, None, NoList, NoRange)

Patches ==
    {DatePatch(DateOf(1), None), DatePatch(DateOf(1), DateOf(1)),
     DatePatch(DateOf(1), DateOf(2)),
     ListPatch("municipios", {}), ListPatch("municipios", {Manaus}),
     ListPatch("bairros", {Desconhecido}),
     ListPatch("categorias", {Casas}),
     ListPatch("tipos", {Padrao}),
     RangePatch("faixa_preco", EmptyRange), RangePatch("faixa_preco", RangeOf(501, 2000)),
     RangePatch("faixa_quartos", RangeOf(0, 2)),
     RangePatch("faixa_banheiros", RangeOf(1, 1)),
     RangePatch("faixa_vagas", RangeOf(1, 3)),
     ValuePatch("profissional", Bool(TRUE)), ValuePatch("profissional", Bool(FALSE)),
     ValuePatch("busca", Str(<<>>)), ValuePatch("busca", Str(<<"A","P">>)),
     ValuePatch("busca", Str(<<"a",".","e">>)), ValuePatch("busca", Str(<<"(">>))}

ApplyPatch(c, p) ==
    CASE p.f = "dates" -> [c EXCEPT !.start_date = p.v, !.end_date = p.v2]
      [] p.f \in {"profissional", "busca"} -> [c EXCEPT ![p.f] = p.v]
      [] p.f \in {"municipios", "bairros", "categorias", "tipos"} -> [c EXCEPT ![p.f] = p.l]
      [] OTHER -> [c EXCEPT ![p.f] = p.r]

RECURSIVE CriteriaUpTo(_)
CriteriaUpTo(n) ==
    IF n = 0 THEN {NoCriteria}
    ELSE LET fewer == CriteriaUpTo(n - 1)
         IN  fewer \cup {ApplyPatch(c, p) : c \in fewer, p \in Patches}

\* the requests of the query specification
Criteria == CriteriaUpTo(MaxSupplied)

\* ------------------------------------------------------------------ callbacks
\* the state once the module has been imported (lines 52-288)
InitQuery ==
    /\ raw \in QueryTables
    /\ df = BaseTable(raw)
    /\ pc = "idle"
    /\ call = NoCall
    /\ dados_tabela = BaseTable(raw).rows
    /\ download = NoDownload
    /\ modal = ModalClosed
    /\ ctx = NoTrigger

\* lines 316-428
atualizar_dashboard ==
    /\ pc = "idle"
    /\ \E c \in Criteria :
          LET res == FilterFrame(StartFrame(df, dados_tabela), c)
          IN  call' = [crit |-> c, raised |-> res.raised, error |-> res.error,
                       out |-> IF res.raised THEN NoOutputs ELSE Outputs(res.frame.rows)]
    /\ pc' = "done"
    /\ UNCHANGED <<modal, ctx, raw, df, dados_tabela, download>>

\* lines 291-302: Dash writes the returned tuple to the Output properties; a
\* callback that raised updates nothing
UpdateOutputs ==
    /\ pc = "done"
    /\ dados_tabela' = IF call.raised THEN dados_tabela ELSE call.out.dados_tabela
    /\ call' = NoCall
    /\ pc' = "idle"
    /\ UNCHANGED <<modal, ctx, raw, df, download>>

\* lines 430-442
baixar_excel ==
    /\ pc = "idle"
    /\ download' = [filename |-> "imoveis_filtrados.xlsx", sheet |-> "Dados Filtrados",
                    rows |-> dados_tabela]
    /\ pc' = "downloading"
    /\ UNCHANGED <<modal, ctx, raw, df, call, dados_tabela>>

\* lines 444-452
baixar_csv ==
    /\ pc = "idle"
    /\ download' = [filename |-> "imoveis_filtrados_debug.csv", sheet |-> "",
                    rows |-> dados_tabela]
    /\ pc' = "downloading"
    /\ UNCHANGED <<modal, ctx, raw, df, call, dados_tabela>>

\* lines 285-286: dcc.Download hands the payload to the browser
SendDownload ==
    /\ pc = "downloading"
    /\ download' = NoDownload
    /\ pc' = "idle"
    /\ UNCHANGED <<modal, ctx, raw, df, call, dados_tabela>>

NextQuery ==
    \/ atualizar_dashboard
    \/ UpdateOutputs
    \/ baixar_excel
    \/ baixar_csv
    \/ SendDownload

SpecQuery == InitQuery /\ [][NextQuery]_vars

\* ---------------------------------------------------------------- image popup
\* str.find(pat, start): the 0-based index of the first occurrence at or after
\* start, -1 when there is none
Find(s, pat, start) ==
    LET hits == {i \in start..(Len(s) - Len(pat)) : SubSeq(s, i + 1, i + Len(pat)) = pat}
    IN  IF hits = {} THEN -1 ELSE CHOOSE i \in hits : \A j \in hits : i <= j

\* a slice index as Python resolves it: negative counts from the end, then clamped
SliceIndex(s, i) ==
    LET k == IF i < 0 THEN i + Len(s) ELSE i
    IN  IF k < 0 THEN 0 ELSE IF k > Len(s) THEN Len(s) ELSE k

\* s[start:end]
Slice(s, start, end) == SubSeq(s, SliceIndex(s, start) + 1, SliceIndex(s, end))

SrcAttr == <<"s","r","c","=","\"">>
Quote == <<"\"">>

\* active_cell: None, or the row (0-based) and column id of the clicked cell
NoCell == [row |-> -1, column_id |-> ""]
Cell(row, column_id) == [row |-> row, column_id |-> column_id]

\* line 471: table_data[row].get("thumbnail_link", "")
CellValue(table_data, row) == table_data[row + 1].thumbnail_link

\* lines 473-478, once src=" has been found
ExtractUrl(cell_value) ==
    LET start == Find(cell_value, SrcAttr, 0) + Len(SrcAttr)
        end == Find(cell_value, Quote, start)
    IN  Slice(cell_value, start, end)

\* lines 462-479; triggered is "" when ctx.triggered is empty
exibir_imagem(triggered, active_cell, table_data, is_open) ==
    IF triggered = ""
    THEN [is_open |-> is_open, src |-> <<>>]
    ELSE IF triggered = "tabela-dados" /\ active_cell # NoCell
    THEN IF /\ active_cell.column_id = "thumbnail_link"
            /\ Truthy(CellValue(table_data, active_cell.row))
            /\ Find(CellValue(table_data, active_cell.row).s, SrcAttr, 0) # -1
         THEN [is_open |-> TRUE, src |-> ExtractUrl(CellValue(table_data, active_cell.row).s)]
         ELSE [is_open |-> is_open, src |-> <<>>]
    ELSE IF triggered = "fechar-modal"
    THEN [is_open |-> FALSE, src |-> <<>>]
    ELSE [is_open |-> is_open, src |-> <<>>]

\* cells of thumbnail in the popup specification
UrlCells ==
    {NaN, Str(<<>>), Str(<<" ", "\t">>), Str(<<" ","u"," ">>), Str(<<"u",".","j","p","g">>),
     Str(<<"a","\"","b">>), Str(<<"\"">>), Str(<<"s","r","c","=","\"","x">>)}

ImageRows ==
    {[GoodRow EXCEPT !.thumbnail = c] : c \in UrlCells}
    \cup {[GoodRow EXCEPT !.price_value = Str(<<"5","0">>)]}

ImageSchemas == {RawCols, RawCols \ {"thumbnail"}}

ImageTables ==
    {[cols |-> cols, rows |-> rows] :
        cols \in ImageSchemas, rows \in SeqsUpTo(ImageRows, MaxListings)}

\* columns of the table a click can land on (lines 147-164)
ClickColumns == {"thumbnail_link", "subject", "id"}

InitImage ==
    /\ raw \in ImageTables
    /\ df = BaseTable(raw)
    /\ pc = "idle"
    /\ call = NoCall
    /\ dados_tabela = BaseTable(raw).rows
    /\ download = NoDownload
    /\ modal = ModalClosed
    /\ ctx = NoTrigger

\* the page is (re)loaded: the layout starts closed (line 188) and Dash fires the
\* callback with nothing triggered and no active cell
PageLoad ==
    /\ modal' = exibir_imagem("", NoCell, dados_tabela, ModalClosed.is_open)
    /\ ctx' = NoTrigger
    /\ UNCHANGED <<raw, df, pc, call, dados_tabela, download>>

\* Input("tabela-dados", "active_cell"): a cell of the table is clicked
CellClick ==
    /\ \E row \in 0..(Len(dados_tabela) - 1), column_id \in ClickColumns :
          /\ modal' = exibir_imagem("tabela-dados", Cell(row, column_id), dados_tabela,
                                     modal.is_open)
          /\ ctx' = [triggered |-> "tabela-dados", active_cell |-> Cell(row, column_id),
                     is_open |-> modal.is_open]
    /\ UNCHANGED <<raw, df, pc, call, dados_tabela, download>>

\* Input("tabela-dados", "active_cell"): the selection is cleared
CellCleared ==
    /\ modal' = exibir_imagem("tabela-dados", NoCell, dados_tabela, modal.is_open)
    /\ ctx' = [triggered |-> "tabela-dados", active_cell |-> NoCell,
               is_open |-> modal.is_open]
    /\ UNCHANGED <<raw, df, pc, call, dados_tabela, download>>

\* Input("fechar-modal", "n_clicks"): the close button; active_cell still holds
\* the last clicked cell
CloseClick ==
    /\ modal' = exibir_imagem("fechar-modal", ctx.active_cell, dados_tabela, modal.is_open)
    /\ ctx' = [triggered |-> "fechar-modal", active_cell |-> ctx.active_cell,
               is_open |-> modal.is_open]
    /\ UNCHANGED <<raw, df, pc, call, dados_tabela, download>>

NextImage ==
    \/ PageLoad
    \/ CellClick
    \/ CellCleared
    \/ CloseClick

SpecImage == InitImage /\ [][NextImage]_vars

\* =================================================================== claims
BaseReady == pc = "idle"

\* the number a price cell stands for, 0 when it stands for none
CellNumber(cell) ==
    CASE cell.t = "num" -> cell.n
      [] cell.t = "str" /\ IsNumeral(cell.s) -> ParseNumeral(cell.s)
      [] OTHER -> 0

CellInRange(cell) == CellNumber(cell) >= 100 /\ CellNumber(cell) <= 10000

IdsOf(rows) == {rows[j].id : j \in 1..Len(rows)}

\* C1: a raw row is in the base table iff its price, coerced to a number with
\* unparseable or missing values as 0, is in [100, 10000]; the surviving row
\* keeps that price (dropped, not clamped), whatever its JSON cells decode to.
C1_PriceGate ==
    BaseReady =>
        /\ \A i \in 1..Len(raw.rows) :
              (i \in IdsOf(df.rows)) <=> CellInRange(raw.rows[i].price_value)
        /\ \A j \in 1..Len(df.rows) :
              /\ df.rows[j].id \in 1..Len(raw.rows)
              /\ df.rows[j].price_value = Num(CellNumber(raw.rows[df.rows[j].id].price_value))
              /\ df.rows[j].price_value.n >= 100
              /\ df.rows[j].price_value.n <= 10000

\* C1 witness: a row priced "50" was dropped and a row whose locationdetails
\* and properties do not decode was kept
C1_Witness ==
    /\ BaseReady
    /\ \E i \in 1..Len(raw.rows) :
          /\ raw.rows[i].price_value = Str(<<"5","0">>)
          /\ i \notin IdsOf(df.rows)
    /\ \E j \in 1..Len(df.rows) :
          /\ raw.rows[df.rows[j].id].properties = Malformed
          /\ raw.rows[df.rows[j].id].locationdetails = Malformed
          /\ "properties" \in raw.cols /\ "locationdetails" \in raw.cols

\* C3 as stated: the identifiers of the base table are 1..N in row order,
\* N the number of base-table rows
C3_DenseIds ==
    BaseReady => \A j \in 1..Len(df.rows) : df.rows[j].id = j

\* the positions, in the ingested CSV, of the rows the Range Filter keeps
KeptPositions == {i \in 1..Len(raw.rows) : CellInRange(raw.rows[i].price_value)}

\* C3 amended: an identifier is the row's 1-based position in the ingested
\* CSV, assigned before the Range Filter and kept by it: the identifiers are
\* dense 1..N before the filter, and after it they are the positions of the
\* surviving rows, strictly increasing in row order (dense only when no
\* earlier row was dropped)
C3_StableIds ==
    /\ pc = "normalized" =>
          /\ Len(df.rows) = Len(raw.rows)
          /\ \A j \in 1..Len(df.rows) : df.rows[j].id = j
    /\ BaseReady =>
          /\ IdsOf(df.rows) = KeptPositions
          /\ Len(df.rows) = Cardinality(KeptPositions)
          /\ \A j, k \in 1..Len(df.rows) : j < k => df.rows[j].id < df.rows[k].id
          /\ \A j \in 1..Len(df.rows) :
                df.rows[j].id = j + Cardinality({k \in 1..df.rows[j].id : k \notin KeptPositions})

\* C3 witness: the first row of the CSV was dropped, so the base table's
\* first identifier is 2
C3_Witness ==
    /\ BaseReady
    /\ Len(df.rows) >= 1
    /\ df.rows[1].id = 2

CountCols == {"rooms", "bathrooms", "garage_spaces"}

\* the properties cell of a base-table row decodes to a list of objects
Decodes(cell) ==
    cell.kind = "array" /\ \A i \in 1..Len(cell.arr) : cell.arr[i].isdict

\* the source values given for a count: the values of the items with that name
Given(cell, key) == {cell.arr[i].value : i \in {i \in 1..Len(cell.arr) : cell.arr[i].name = key}}

IsNumberValue(v) == v.t = "num" \/ (v.t = "str" /\ IsNumeral(v.s))

\* a count is 0 when the column is missing, the cell does not decode, no item
\* has the name, or the value given last is not a number
DefaultsToZero(row, key) ==
    LET cell == raw.rows[row.id].properties
    IN  (\/ "properties" \notin raw.cols
         \/ ~Decodes(cell)
         \/ Given(cell, key) = {}
         \/ \A v \in Given(cell, key) : ~IsNumberValue(v))
        => row[key] = Num(0)

Example2 ==
    JsonArray(<<Item("rooms", Str(<<"3">>)), Item("bathrooms", Str(<<"b","a","d">>))>>)

C5_LocationSentinel ==
    BaseReady =>
        \A j \in 1..Len(df.rows) : \A k \in LocKeys :
            LET cell == raw.rows[df.rows[j].id].locationdetails
                v == df.rows[j][k]
            IN  /\ v.t \notin {"nan", "none", "missing"}
                /\ "locationdetails" \notin raw.cols => v = Str(Desconhecido)
                /\ cell.kind # "object" => v = Str(Desconhecido)
                /\ cell.obj[k] = Missing => v = Str(Desconhecido)
                /\ ("locationdetails" \in raw.cols /\ cell.kind = "object"
                        /\ cell.obj[k].t \notin {"missing", "none", "nan"})
                    => v = cell.obj[k]

\* C5 witness: one base-table row came from a cell that is not JSON, another
\* from an object without the ddd key
C5_Witness ==
    /\ BaseReady
    /\ "locationdetails" \in raw.cols
    /\ \E j \in 1..Len(df.rows) :
          /\ raw.rows[df.rows[j].id].locationdetails = Malformed
          /\ df.rows[j].uf = Str(Desconhecido)
    /\ \E j \in 1..Len(df.rows) :
          /\ raw.rows[df.rows[j].id].locationdetails.kind = "object"
          /\ raw.rows[df.rows[j].id].locationdetails.obj["ddd"] = Missing
          /\ raw.rows[df.rows[j].id].locationdetails.obj["municipality"] = Str(Parintins)
          /\ df.rows[j].ddd = Str(Desconhecido)
          /\ df.rows[j].municipality = Str(Parintins)

\* ---------------------------------------------------------- query claims
Returned == pc = "done" /\ ~call.raised

View == call.out.dados_tabela

\* the date criterion constrains: both bounds supplied, some row has a date
DateActive(rows, c) ==
    /\ c.start_date.t = "date"
    /\ c.end_date.t = "date"
    /\ \E j \in 1..Len(rows) : rows[j].date.t = "ts"

DateHolds(rows, row, c) ==
    DateActive(rows, c) =>
        /\ row.date.t = "ts"
        /\ c.start_date.n * 86400 <= row.date.n
        /\ row.date.n <= c.end_date.n * 86400

MemberHolds(v, l) == (l.kind = "list" /\ l.items # {}) => (v.t = "str" /\ v.s \in l.items)

WithinHolds(v, r) == r.kind = "range" => (r.lo <= v.n /\ v.n <= r.hi)

FlagHolds(row, c) == c.profissional.t = "bool" => row.professionalad = c.profissional

TextHolds(cols, row, c) ==
    (c.busca.t = "str" /\ c.busca.s # <<>> /\ cols \cap {"subject", "title"} # {}) =>
        \E col \in cols \cap {"subject", "title"} : RegexSearch(c.busca.s, StrOf(row[col]))

\* the row satisfies every supplied criterion
SatisfiesAll(frame, row, c) ==
    /\ DateHolds(frame.rows, row, c)
    /\ MemberHolds(row.municipality, c.municipios)
    /\ MemberHolds(row.neighbourhood, c.bairros)
    /\ MemberHolds(row.category, c.categorias)
    /\ MemberHolds(row.real_estate_type, c.tipos)
    /\ WithinHolds(row.price_value, c.faixa_preco)
    /\ WithinHolds(row.rooms, c.faixa_quartos)
    /\ WithinHolds(row.bathrooms, c.faixa_banheiros)
    /\ WithinHolds(row.garage_spaces, c.faixa_vagas)
    /\ FlagHolds(row, c)
    /\ TextHolds(frame.cols, row, c)

\* the rows of the frame that satisfy every supplied criterion, in frame order
Conjunction(frame, c) ==
    LET Keep(row) == SatisfiesAll(frame, row, c)
    IN  SelectSeq(frame.rows, Keep)

\* C2 as stated: for every base table and every combination of criteria the
\* call yields a view, and the view holds exactly the base-table rows that
\* satisfy the conjunction of the supplied criteria
C2_ViewIsConjunction ==
    pc = "done" => (~call.raised /\ View = Conjunction(df, call.crit))

\* every argument is None or empty
NothingSupplied(c) ==
    /\ c.start_date.t = "none" /\ c.end_date.t = "none"
    /\ \A f \in {"municipios", "bairros", "categorias", "tipos"} : ~ListTruthy(c[f])
    /\ \A f \in {"faixa_preco", "faixa_quartos", "faixa_banheiros", "faixa_vagas"} :
          c[f].kind \in {"none", "empty"}
    /\ c.profissional.t = "none"
    /\ c.busca.t = "none" \/ c.busca = Str(<<>>)

\* C6: a call with no criteria (every argument None or empty) returns the
\* base table: the same rows in the same order
C6_NoCriteriaIsIdentity ==
    (pc = "done" /\ NothingSupplied(call.crit)) => (~call.raised /\ View = df.rows)

\* C6 witness: a call with an empty list and an empty search text returned
\* both rows of a two-row base table, after an earlier query had narrowed the
\* table on screen
C6_Witness ==
    /\ Returned
    /\ NothingSupplied(call.crit)
    /\ call.crit.municipios = ListOf({})
    /\ call.crit.busca = Str(<<>>)
    /\ Len(View) = 2
    /\ Len(dados_tabela) < 2

\* every argument but the two dates is None
OnlyDates(c) == [c EXCEPT !.start_date = None, !.end_date = None] = NoCriteria

\* C7 as stated: the date criterion constrains only when both bounds are
\* supplied and some base-table row has a non-null date, and then keeps
\* exactly the rows with start <= date <= end; otherwise it is a no-op
C7_DateRange ==
    (pc = "done" /\ OnlyDates(call.crit)) =>
        /\ ~call.raised
        /\ LET Keep(row) == DateHolds(df.rows, row, call.crit)
           IN  View = SelectSeq(df.rows, Keep)

SummaryOf(o) == <<o.total_imoveis, o.preco_medio, o.preco_mediano, o.quartos_medios>>

\* C8: on an empty view every aggregate carries its empty-input marker and
\* the summary is (0, 0, 0, 0); the markers appear on no view that has a row
C8_EmptyMarkers ==
    Returned =>
        LET o == call.out
            empty == Len(o.dados_tabela) = 0
        IN  /\ empty <=> o.grafico_precos.title = "Sem dados para exibir"
            /\ empty <=> o.grafico_categorias.title = "Sem dados para exibir"
            /\ empty <=> o.grafico_preco_bairro.title = "Sem dados para exibir"
            /\ empty <=> o.grafico_preco_municipio.title = "Sem dados para exibir"
            /\ empty <=> o.grafico_preco_categoria.title = "Sem dados para exibir"
            /\ empty <=> o.analise_estatistica.html = "Sem dados para exibir estatísticas."
            /\ empty <=> SummaryOf(o) = <<0, 0, 0, 0>>
            /\ empty <=> o.total_imoveis = 0
            /\ empty <=> o.preco_medio = 0
            /\ empty <=> o.preco_mediano = 0
            /\ empty => o.quartos_medios = 0

\* C8 witness: criteria that no row of a non-empty base table satisfies
\* returned the empty view with its markers
C8_Witness ==
    /\ Returned
    /\ Len(df.rows) > 0
    /\ View = <<>>
    /\ call.out.grafico_precos.title = "Sem dados para exibir"
    /\ call.out.analise_estatistica.html = "Sem dados para exibir estatísticas."
    /\ SummaryOf(call.out) = <<0, 0, 0, 0>>

\* C9 as stated: for every base table and every set of criteria
\* atualizar_dashboard returns and never raises
C9_NeverRaises ==
    pc = "done" => ~call.raised

\* C10: queries and exports leave the base table as ingestion built it, and a
\* returned view is the conjunction of that call's criteria over the base
\* table, whatever was asked and shown before
C10_BaseUnchanged ==
    /\ df = BaseTable(raw)
    /\ Returned => View = Conjunction(BaseTable(raw), call.crit)
    /\ pc = "downloading" => download.rows = dados_tabela

\* C10 witness: an export of a view that an earlier query had narrowed, with
\* the base table still whole
C10_Witness ==
    /\ pc = "downloading"
    /\ download.filename = "imoveis_filtrados.xlsx"
    /\ Len(download.rows) = 1
    /\ Len(df.rows) = 2
    /\ df = BaseTable(raw)

\* ------------------------------------------------------------------------ C11
\* the last call was a click on a thumbnail_link cell
ThumbnailClicked ==
    ctx.triggered = "tabela-dados" /\ ctx.active_cell.column_id = "thumbnail_link"

ClickedRow == dados_tabela[ctx.active_cell.row + 1]

\* the thumbnail URL of the clicked row as the CSV gave it, null without the column
ClickedUrl == IF "thumbnail" \in raw.cols THEN ClickedRow.thumbnail ELSE NaN

BlankUrl(v) == v.t # "str" \/ \A i \in 1..Len(v.s) : v.s[i] \in {" ", "\t", "\n"}

HasQuote(v) == v.t = "str" /\ \E i \in 1..Len(v.s) : v.s[i] = "\""

\* C11: a click on the thumbnail_link cell of a row whose URL is non-null and
\* non-blank opens the popup with exactly that URL; a click on the cell of a null
\* or blank URL finds the empty string stored, returns no URL and leaves the
\* popup's open state as it was; the close button leaves the popup closed.
C11_ThumbnailRoundTrip ==
    /\ (ThumbnailClicked /\ ~BlankUrl(ClickedUrl))
          => modal = [is_open |-> TRUE, src |-> ClickedUrl.s]
    /\ (ThumbnailClicked /\ BlankUrl(ClickedUrl))
          => /\ ClickedRow.thumbnail_link = Str(<<>>)
             /\ modal.src = <<>>
             /\ modal.is_open = ctx.is_open
    /\ ctx.triggered = "fechar-modal" => ~modal.is_open

\* the round trip on the URLs that hold no double quote, and what the popup
\* shows for the others: the part of the URL before its first double quote
C11_QuoteFreeRoundTrip ==
    /\ (ThumbnailClicked /\ ~BlankUrl(ClickedUrl) /\ ~HasQuote(ClickedUrl))
          => modal = [is_open |-> TRUE, src |-> ClickedUrl.s]
    /\ (ThumbnailClicked /\ ~BlankUrl(ClickedUrl) /\ HasQuote(ClickedUrl))
          => /\ modal.is_open
             /\ Len(modal.src) < Len(ClickedUrl.s)
             /\ modal.src = SubSeq(ClickedUrl.s, 1, Len(modal.src))
             /\ ClickedUrl.s[Len(modal.src) + 1] = "\""
             /\ \A i \in 1..Len(modal.src) : modal.src[i] # "\""
    /\ (ThumbnailClicked /\ BlankUrl(ClickedUrl))
          => /\ ClickedRow.thumbnail_link = Str(<<>>)
             /\ modal.src = <<>>
             /\ modal.is_open = ctx.is_open
    /\ ctx.triggered = "fechar-modal" => ~modal.is_open

\* the popup shows "a" after a click on the thumbnail whose URL is a"b
C11_TruncatedUrl ==
    /\ ThumbnailClicked
    /\ ClickedUrl = Str(<<"a","\"","b">>)
    /\ modal = [is_open |-> TRUE, src |-> <<"a">>]

\* an open popup stays open after a click on the cell of a blank URL
C11_BlankClickOnOpenPopup ==
    /\ ThumbnailClicked
    /\ ClickedUrl = Str(<<" ", "\t">>)
    /\ ctx.is_open
    /\ modal = [is_open |-> TRUE, src |-> <<>>]

====
